---- MODULE Spec2Model ----
(***************************************************************************)
(* Model of data_quality_utils.tree_finder: the coordinate transforms,     *)
(* the per-box distance computation, TreeFinder.find_closest_tree (also    *)
(* run by several threads, through suppress_output) and                    *)
(* TreeFinder.get_stats; of WMSExtractor.get_bbox, which builds the        *)
(* geographic box the transforms are given; of SimilaritySearcher.search   *)
(* and its document filter; and of Crawler, its filter chain and           *)
(* deep_crawl.                                                             *)
(*                                                                         *)
(* Units.  Angles are integers counting World-ths of a full turn (World    *)
(* units = 360 degrees).  Pixel coordinates that the code holds as floats  *)
(* (box centroids, tile pixels) are integers counting half pixels, so that *)
(* (xmin + xmax) / 2 and img_width / 2 are exact; names of such values end *)
(* in 2.  Sines count SinScale-ths.  The inputs are chosen on the grid     *)
(* where the code's float divisions are exact; the float additions of      *)
(* get_bbox are rounded (RoundFloat).                                      *)
(***************************************************************************)
EXTENDS Integers, Sequences, FiniteSets, TLC

VARIABLES
    locArgs,    \* arguments of the last find_closest_tree call (or NoCall)
    locOut,     \* what that call did: returned None, returned a triple, raised
    distArgs,   \* arguments of the last distance_utils.calculate_distances call
    distOut,    \* what that call did
    tfOut,      \* what TreeFinder._calculate_distances did on the same arguments
    pc,         \* get_stats: "idle", "files", "returned", "raised"
    types,      \* get_stats: the types argument (one label per dataset)
    ds,         \* get_stats: index of the dataset being enumerated
    type_stats, \* get_stats: the local list of the current dataset
    stats,      \* get_stats: the output mapping label -> list of distances
    raised,     \* get_stats: the exception that ended the run ("" if none)
    log,        \* history: one entry per image enumerated by get_stats
    image,      \* get_stats: the file the inner loop read last (or NoCall)
    trArgs,     \* the transform called directly and its arguments (or NoCall)
    trOut,      \* what that call did
    trBack,     \* what the call that takes its result back did
    sys_stdout, \* the stream sys.stdout is bound to
    sys_stderr, \* the stream sys.stderr is bound to
    closed,     \* the devnull handles that have been closed
    tpc,        \* per thread: the statement of _predict_boxes it is at
    old_stdout, \* per thread: the local old_stdout of suppress_output
    old_stderr, \* per thread: the local old_stderr of suppress_output
    detect,     \* per thread: what model.predict_tile did
    tcall,      \* the find_closest_tree call the threads make
    tout,       \* per thread: what its find_closest_tree call did
    srArgs,     \* arguments of the SimilaritySearcher.search call (or NoCall)
    srOut,      \* what that call did
    crArgs,     \* arguments of Crawler(...) and the pages its crawl finds
    crawler,    \* the Crawler object constructed (or NoCall)
    crawl_data  \* what deep_crawl returned (or NoCall)

vars == <<locArgs, locOut, distArgs, distOut, tfOut,
          pc, types, ds, type_stats, stats, raised, log, image,
          trArgs, trOut, trBack,
          sys_stdout, sys_stderr, closed, tpc, old_stdout, old_stderr,
          detect, tcall, tout,
          srArgs, srOut, crArgs, crawler, crawl_data>>

locVars   == <<locArgs, locOut>>
distVars  == <<distArgs, distOut, tfOut>>
batchVars == <<pc, types, ds, type_stats, stats, raised, log, image>>
trVars    == <<trArgs, trOut, trBack>>
outVars   == <<sys_stdout, sys_stderr, closed, tpc, old_stdout, old_stderr,
               detect, tcall, tout>>
srVars    == <<srArgs, srOut>>
crVars    == <<crArgs, crawler, crawl_data>>

(***************************************************************************)
(* Bounds of the model.                                                    *)
(***************************************************************************)
MaxBoxes    == 2    \* longest detection list
MaxDatasets == 2    \* longest paths/types list given to get_stats
MaxFiles    == 3    \* most files enumerated in one run of get_stats
MaxThreads  == 3    \* threads that run find_closest_tree at the same time
MaxText     == 2    \* longest document text and longest keyword, in characters
MaxDocs     == 2    \* most rows of the document frame given to search
MaxKeywords == 2    \* longest keyword_filters list
MaxFilters  == 2    \* longest filters list given to Crawler
MaxResults  == 2    \* most results of one crawl

(***************************************************************************)
(* Python values.  metadata.get(key, "") yields either the stored value or *)
(* the empty string, so the values that reach the transforms carry their   *)
(* Python type.  A call either returns a value or raises an exception.     *)
(***************************************************************************)
PyInt(n)   == [t |-> "int", v |-> n]
PyTuple(s) == [t |-> "tuple", v |-> s]
PyStr      == [t |-> "str"]
PyNone     == [t |-> "NoneType"]

Ok(v)    == [ok |-> TRUE, val |-> v]
Raise(e) == [ok |-> FALSE, exc |-> e]

Abs(n) == IF n < 0 THEN -n ELSE n

\* Python's int(): truncation toward zero of the quotient num / den.
TruncDiv(num, den) ==
    IF (num >= 0) = (den > 0) THEN Abs(num) \div Abs(den)
    ELSE -(Abs(num) \div Abs(den))

(***************************************************************************)
(* Constants of the program and of the unit system.                        *)
(***************************************************************************)
TILE_SIZE == 256
World     == 16 * TILE_SIZE      \* angle units in 360 degrees
HalfWorld == World \div 2        \* 180 degrees
FracDen   == 8 * TILE_SIZE       \* the Mercator table is indexed by y / map_size in FracDen-ths

(***************************************************************************)
(* The Web-Mercator latitude function degrees(atan(sinh(pi - 2 pi f))) of  *)
(* the map fraction f = k / FracDen, tabulated in angle units around the   *)
(* two reference latitudes the model uses (k = 680 and the equator,        *)
(* k = 1024), rounded to the nearest unit.                                 *)
(***************************************************************************)
MercatorNorth ==
    << 626, 624, 623, 622, 621, 620, 619, 617, 616, 615, 614, 613, 612,
       610, 609, 608, 607, 606, 604, 603, 602, 601, 600, 598, 597, 596,
       595, 593, 592, 591, 590, 589, 587, 586, 585, 584, 582, 581, 580,
       579, 577, 576, 575, 573, 572, 571, 570, 568, 567, 566, 564, 563,
       562, 561, 559, 558, 557, 555, 554, 553, 551, 550, 549, 547, 546 >>

NorthK   == 680                  \* k of the northern reference latitude
EquatorK == FracDen \div 2        \* k of the equator
Window   == (Len(MercatorNorth) - 1) \div 2
NorthLo  == NorthK - Window
NorthHi  == NorthK + Window
EquatorLo == EquatorK - Window
EquatorHi == EquatorK + Window

\* siny is clamped to [-0.9999, 0.9999]: asin(0.9999) is LatClamp units, and
\* the map fraction there is PoleFrac FracDen-ths beyond the map's edge.
LatClamp == 1015
PoleFrac == 590

\* Sines count SinScale-ths: the clamp bound 0.9999 is SinClamp, and the sine
\* of the northern reference latitude is SinNorth.
SinScale == 10000
SinClamp == 9999
SinNorth == 7836

MercatorDomain ==
    (NorthLo .. NorthHi) \cup (EquatorLo .. EquatorHi)
        \cup {-PoleFrac, FracDen + PoleFrac}

MercatorLat(k) ==
    IF k \in NorthLo .. NorthHi THEN MercatorNorth[k - NorthLo + 1]
    ELSE IF k = -PoleFrac THEN LatClamp
    ELSE IF k = FracDen + PoleFrac THEN -LatClamp
    ELSE 2 * (EquatorK - k)

\* math.sin(math.radians(lat)) on the latitudes the model uses: the equator,
\* the reference latitude and its mirror image, the clamp latitude, the poles.
Sin(lat) ==
    LET s == CASE Abs(lat) = 0 -> 0
               [] Abs(lat) = MercatorLat(NorthK) -> SinNorth
               [] Abs(lat) = LatClamp -> SinClamp
               [] Abs(lat) = World \div 4 -> SinScale
    IN  IF lat < 0 THEN -s ELSE s

\* Mutation of ClampSiny: the sine is used as it is.
ClampSiny_None(siny) == siny

\* min(max(siny, -0.9999), 0.9999)
ClampSiny(siny) ==
    IF siny > SinClamp THEN SinClamp
    ELSE IF siny < -SinClamp THEN -SinClamp
    ELSE siny

\* 0.5 - math.log((1 + siny) / (1 - siny)) / (4 * math.pi) in FracDen-ths.
\* The float division raises when 1 - siny is zero and math.log raises on
\* zero; elsewhere the value is the latitude table read backwards.
MercatorFrac(siny) ==
    IF SinScale - siny = 0 THEN Raise("ZeroDivisionError")
    ELSE IF SinScale + siny <= 0 THEN Raise("ValueError")
    ELSE Ok(CASE siny = 0 -> EquatorK
              [] siny = SinNorth -> NorthK
              [] siny = -SinNorth -> FracDen - NorthK
              [] siny = SinClamp -> -PoleFrac
              [] siny = -SinClamp -> FracDen + PoleFrac)

(***************************************************************************)
(* The transforms of distance_utils.  Each returns Ok(value) or             *)
(* Raise(exception).                                                       *)
(***************************************************************************)

\* xmin, ymin, xmax, ymax = bbox
Unpack4(bbox) ==
    IF bbox.t = "tuple" THEN Ok(bbox.v)
    ELSE IF bbox.t = "str" THEN Raise("ValueError")
    ELSE Raise("TypeError")

\* Mutation of pixel_to_epsg4326: the latitude counted from the bottom of
\* the box.
pixel_to_epsg4326_NoFlip(x2, y2, img_width, img_height, bbox) ==
    LET u == Unpack4(bbox) IN
    IF ~u.ok THEN u
    ELSE IF img_width = 0 \/ img_height = 0 THEN Raise("ZeroDivisionError")
    ELSE LET xmin == u.val[1]
             ymin == u.val[2]
             xmax == u.val[3]
             ymax == u.val[4]
             lon == xmin + (x2 * (xmax - xmin)) \div (2 * img_width)
             lat == ymin + (y2 * (ymax - ymin)) \div (2 * img_height)
         IN  Ok(<<lon, lat>>)

\* x2, y2: the pixel in half pixels.  Returns <<lon, lat>>.
pixel_to_epsg4326(x2, y2, img_width, img_height, bbox) ==
    LET u == Unpack4(bbox) IN
    IF ~u.ok THEN u
    ELSE IF img_width = 0 \/ img_height = 0 THEN Raise("ZeroDivisionError")
    ELSE LET xmin == u.val[1]
             ymin == u.val[2]
             xmax == u.val[3]
             ymax == u.val[4]
             lon == xmin + (x2 * (xmax - xmin)) \div (2 * img_width)
             lat == ymax - (y2 * (ymax - ymin)) \div (2 * img_height)
         IN  Ok(<<lon, lat>>)

\* Mutation of epsg4326_to_pixel: y_frac taken from the bottom of the box
\* (the "1 -" left out).
epsg4326_to_pixel_NoFlip(lat, lon, bbox, img_size) ==
    LET u == Unpack4(bbox) IN
    IF ~u.ok THEN u
    ELSE LET xmin == u.val[1]
             ymin == u.val[2]
             xmax == u.val[3]
             ymax == u.val[4]
             width  == img_size[1]
             height == img_size[2]
         IN  IF xmax = xmin \/ ymax = ymin THEN Raise("ZeroDivisionError")
             ELSE Ok(<< TruncDiv((lon - xmin) * width, xmax - xmin),
                        TruncDiv((lat - ymin) * height, ymax - ymin) >>)

\* Returns the integer pixel <<x_pixel, y_pixel>>.
epsg4326_to_pixel(lat, lon, bbox, img_size) ==
    LET u == Unpack4(bbox) IN
    IF ~u.ok THEN u
    ELSE LET xmin == u.val[1]
             ymin == u.val[2]
             xmax == u.val[3]
             ymax == u.val[4]
             width  == img_size[1]
             height == img_size[2]
         IN  IF xmax = xmin \/ ymax = ymin THEN Raise("ZeroDivisionError")
             ELSE Ok(<< TruncDiv((lon - xmin) * width, xmax - xmin),
                        TruncDiv((ymax - lat) * height, ymax - ymin) >>)

\* TILE_SIZE * (2**zoom) * scale, which needs numbers
MapSizeFails(zoom, scale) == zoom.t # "int" \/ scale.t # "int"
MapSize(zoom, scale) == TILE_SIZE * (2 ^ zoom.v) * scale.v

\* Mutation of epsg3857_to_pixel: the longitude confined to [-180, 180].
epsg3857_to_pixel_ClampLon(lat, lon, zoom, scale) ==
    IF MapSizeFails(zoom, scale) THEN Raise("TypeError")
    ELSE LET siny == ClampSiny(Sin(lat))
             map_size == MapSize(zoom, scale)
             clamped == IF lon > HalfWorld THEN HalfWorld
                        ELSE IF lon < -HalfWorld THEN -HalfWorld ELSE lon
             x2 == ((clamped + HalfWorld) * 2 * map_size) \div World
             frac == MercatorFrac(siny)
         IN  IF ~frac.ok THEN frac
             ELSE Ok(<< x2, (frac.val * 2 * map_size) \div FracDen >>)

\* Returns the tile pixel <<x2, y2>> in half pixels.
epsg3857_to_pixel(lat, lon, zoom, scale) ==
    IF MapSizeFails(zoom, scale) THEN Raise("TypeError")
    ELSE LET siny == ClampSiny(Sin(lat))
             map_size == MapSize(zoom, scale)
             x2 == ((lon + HalfWorld) * 2 * map_size) \div World
             frac == MercatorFrac(siny)
         IN  IF ~frac.ok THEN frac
             ELSE Ok(<< x2, (frac.val * 2 * map_size) \div FracDen >>)

\* Returns <<lat, lon>>.
pixel_to_epsg3857(x2, y2, zoom, scale) ==
    IF MapSizeFails(zoom, scale) THEN Raise("TypeError")
    ELSE LET map_size == MapSize(zoom, scale)
             lon == (x2 * World) \div (2 * map_size) - HalfWorld
             lat == MercatorLat((y2 * FracDen) \div (2 * map_size))
         IN  Ok(<<lat, lon>>)

\* geopy's geodesic(p, q).meters, an external library: a metric on the
\* grid (zero exactly for equal points, symmetric).  p, q are <<lat, lon>>.
geodesic(p, q) == Abs(p[1] - q[1]) + Abs(p[2] - q[2])

(***************************************************************************)
(* WMSExtractor.get_bbox builds the box around the reference point with    *)
(* float additions, whose results are rounded to the nearest float (ties   *)
(* to the even significand).  The model's floats have FloatBits            *)
(* significant bits instead of 53: integers below 2^FloatBits are exact,   *)
(* above it the floats are 2 apart, then 4 apart, and so on.               *)
(***************************************************************************)
FloatBits == 10

\* The distance between neighbouring floats at magnitude a >= 0.
RECURSIVE UlpOf(_)
UlpOf(a) == IF a < 2 ^ FloatBits THEN 1 ELSE 2 * UlpOf(a \div 2)

\* The float nearest to the exact result v.
RoundFloat(v) ==
    LET a == Abs(v)
        u == UlpOf(a)
        q == a \div u
        r == a % u
        m == IF 2 * r < u THEN q
             ELSE IF 2 * r > u THEN q + 1
             ELSE IF q % 2 = 0 THEN q ELSE q + 1
    IN  IF v < 0 THEN -(m * u) ELSE m * u

\* Returns (xmin, ymin, xmax, ymax).
get_bbox(lat, lon, offset) ==
    << RoundFloat(lon - offset), RoundFloat(lat - offset),
       RoundFloat(lon + offset), RoundFloat(lat + offset) >>

(***************************************************************************)
(* The inputs: images as cv2.imread, the detector and the metadata file    *)
(* present them.                                                           *)
(***************************************************************************)
Box(xmin, ymin, xmax, ymax) ==
    [xmin |-> xmin, ymin |-> ymin, xmax |-> xmax, ymax |-> ymax]

\* Pixel boxes the detector may return.
BoxSet == { Box(0, 0, 1, 1), Box(1, 1, 2, 2), Box(0, 0, 2, 2), Box(2, 0, 4, 2) }

RECURSIVE SeqsUpTo(_, _)
SeqsUpTo(S, n) ==
    IF n = 0 THEN {<<>>}
    ELSE LET shorter == SeqsUpTo(S, n - 1)
         IN  shorter \cup { Append(s, x) : s \in {t \in shorter : Len(t) = n - 1}, x \in S }

BoxLists == SeqsUpTo(BoxSet, MaxBoxes)

\* image.shape[:2] = (rows, columns) of the image read.
Shapes == { <<2, 2>>, <<2, 4>> }

\* The json files the three extractors write (map_extractor), a file with
\* only the reference point, and an empty json object.
MetaStatic == [type |-> "static", lat |-> 0, lon |-> 0, zoom |-> 1, scale |-> 2]
MetaTiles  == [type |-> "tiles", lat |-> MercatorLat(NorthK), lon |-> -8, zoom |-> 0]
MetaWMS    == [type |-> "wms", lat |-> MercatorLat(NorthK), lon |-> -8,
               bbox |-> << -16, MercatorLat(NorthK) - 8, 0, MercatorLat(NorthK) + 8 >>]
MetaBare   == [lat |-> 0, lon |-> 0]
MetaEmpty  == [k \in {} |-> 0]

Dicts == { MetaStatic, MetaTiles, MetaWMS, MetaBare, MetaEmpty }

\* The metadata file beside the image: absent, or holding a json object.
NoFile      == [exists |-> FALSE]
File(dict)  == [exists |-> TRUE, json |-> dict]
MetaFiles   == {NoFile} \cup { File(d) : d \in Dicts }

\* The detector returns boxes inside the image it was given.
Inside(box, shape) == box.ymax <= shape[1] /\ box.xmax <= shape[2]

Images ==
    { img \in [shape : Shapes, boxes : BoxLists, meta : MetaFiles] :
        \A i \in 1 .. Len(img.boxes) : Inside(img.boxes[i], img.shape) }

FlagThresholds == { 0, 8, 10 }

(***************************************************************************)
(* distance_utils.calculate_distances.  A record is the Python tuple       *)
(* ((pred_lat, pred_lon), box_dist, box).                                  *)
(***************************************************************************)

\* Mutation of BoxRecord: in tile mode the box centroid is added to the
\* reference point's tile pixel without taking the image centre off.
BoxRecord_NoCentre(lat, lon, img_width, img_height, box, convert_coords, bbox, zoom, scale) ==
    LET x_center2 == box.xmin + box.xmax
        y_center2 == box.ymin + box.ymax
    IN  IF convert_coords
        THEN LET c == epsg3857_to_pixel(lat, lon, zoom, scale) IN
             IF ~c.ok THEN c
             ELSE LET abs_px2 == c.val[1] + x_center2
                      abs_py2 == c.val[2] + y_center2
                      p == pixel_to_epsg3857(abs_px2, abs_py2, zoom, scale)
                  IN  IF ~p.ok THEN p
                      ELSE Ok(<< p.val, geodesic(p.val, <<lat, lon>>), box >>)
        ELSE LET q == pixel_to_epsg4326(x_center2, y_center2, img_width, img_height, bbox) IN
             IF ~q.ok THEN q
             ELSE LET pred == << q.val[2], q.val[1] >>
                  IN  Ok(<< pred, geodesic(pred, <<lat, lon>>), box >>)

\* One pass of the loop body: the record appended for one box.
BoxRecord(lat, lon, img_width, img_height, box, convert_coords, bbox, zoom, scale) ==
    LET x_center2 == box.xmin + box.xmax
        y_center2 == box.ymin + box.ymax
    IN  IF convert_coords
        THEN LET c == epsg3857_to_pixel(lat, lon, zoom, scale) IN
             IF ~c.ok THEN c
             ELSE LET abs_px2 == c.val[1] - img_width + x_center2
                      abs_py2 == c.val[2] - img_height + y_center2
                      p == pixel_to_epsg3857(abs_px2, abs_py2, zoom, scale)
                  IN  IF ~p.ok THEN p
                      ELSE Ok(<< p.val, geodesic(p.val, <<lat, lon>>), box >>)
        ELSE LET q == pixel_to_epsg4326(x_center2, y_center2, img_width, img_height, bbox) IN
             IF ~q.ok THEN q
             ELSE LET pred == << q.val[2], q.val[1] >>
                  IN  Ok(<< pred, geodesic(pred, <<lat, lon>>), box >>)

\* Mutation of calculate_distances: each record is put in front of the list
\* instead of behind it.
calculate_distances_Reversed(lat, lon, img_width, img_height, pred_boxes, convert_coords, bbox, zoom, scale) ==
    LET n == Len(pred_boxes)
        rec(i) == BoxRecord(lat, lon, img_width, img_height, pred_boxes[i],
                            convert_coords, bbox, zoom, scale)
        bad == { i \in 1 .. n : ~rec(i).ok }
    IN  IF bad # {} THEN rec(CHOOSE i \in bad : \A j \in bad : i <= j)
        ELSE Ok([i \in 1 .. n |-> rec(n + 1 - i).val])

\* The loop: the records in input order, or the first exception raised.
calculate_distances(lat, lon, img_width, img_height, pred_boxes, convert_coords, bbox, zoom, scale) ==
    LET rec(i) == BoxRecord(lat, lon, img_width, img_height, pred_boxes[i],
                            convert_coords, bbox, zoom, scale)
        bad == { i \in 1 .. Len(pred_boxes) : ~rec(i).ok }
    IN  IF bad # {} THEN rec(CHOOSE i \in bad : \A j \in bad : i <= j)
        ELSE Ok([i \in 1 .. Len(pred_boxes) |-> rec(i).val])

\* Mutation of get_coordinate_point: the flag is ignored and the pixel is
\* always computed from the box.
get_coordinate_point_FromBox(lat, lon, bbox, img_size, convert_coords) ==
    epsg4326_to_pixel(lat, lon, bbox, img_size)

\* The pixel of the reference point: the middle of the image when the
\* image is centred on it (convert_coords), else its place in the box.
get_coordinate_point(lat, lon, bbox, img_size, convert_coords) ==
    IF convert_coords
    THEN Ok(<< img_size[1] \div 2, img_size[2] \div 2 >>)
    ELSE epsg4326_to_pixel(lat, lon, bbox, img_size)

(***************************************************************************)
(* TreeFinder's own copies: the static transforms and                      *)
(* TreeFinder._calculate_distances.                                        *)
(***************************************************************************)
TreeFinder_pixel_to_epsg4326(x2, y2, img_width, img_height, bbox) ==
    LET u == Unpack4(bbox) IN
    IF ~u.ok THEN u
    ELSE IF img_width = 0 \/ img_height = 0 THEN Raise("ZeroDivisionError")
    ELSE LET xmin == u.val[1]
             ymin == u.val[2]
             xmax == u.val[3]
             ymax == u.val[4]
             lon == xmin + (x2 * (xmax - xmin)) \div (2 * img_width)
             lat == ymax - (y2 * (ymax - ymin)) \div (2 * img_height)
         IN  Ok(<<lon, lat>>)

TreeFinder_epsg4326_to_pixel(lat, lon, bbox, img_size) ==
    LET u == Unpack4(bbox) IN
    IF ~u.ok THEN u
    ELSE LET xmin == u.val[1]
             ymin == u.val[2]
             xmax == u.val[3]
             ymax == u.val[4]
             width  == img_size[1]
             height == img_size[2]
         IN  IF xmax = xmin \/ ymax = ymin THEN Raise("ZeroDivisionError")
             ELSE Ok(<< TruncDiv((lon - xmin) * width, xmax - xmin),
                        TruncDiv((ymax - lat) * height, ymax - ymin) >>)

TreeFinder_epsg3857_to_pixel(lat, lon, zoom, scale) ==
    IF MapSizeFails(zoom, scale) THEN Raise("TypeError")
    ELSE LET siny == ClampSiny(Sin(lat))
             map_size == MapSize(zoom, scale)
             x2 == ((lon + HalfWorld) * 2 * map_size) \div World
             frac == MercatorFrac(siny)
         IN  IF ~frac.ok THEN frac
             ELSE Ok(<< x2, (frac.val * 2 * map_size) \div FracDen >>)

TreeFinder_pixel_to_epsg3857(x2, y2, zoom, scale) ==
    IF MapSizeFails(zoom, scale) THEN Raise("TypeError")
    ELSE LET map_size == MapSize(zoom, scale)
             lon == (x2 * World) \div (2 * map_size) - HalfWorld
             lat == MercatorLat((y2 * FracDen) \div (2 * map_size))
         IN  Ok(<<lat, lon>>)

TreeFinder_BoxRecord(lat, lon, img_width, img_height, box, convert_coords, bbox, zoom, scale) ==
    LET x_center2 == box.xmin + box.xmax
        y_center2 == box.ymin + box.ymax
    IN  IF convert_coords
        THEN LET c == TreeFinder_epsg3857_to_pixel(lat, lon, zoom, scale) IN
             IF ~c.ok THEN c
             ELSE LET abs_px2 == c.val[1] - img_width + x_center2
                      abs_py2 == c.val[2] - img_height + y_center2
                      p == TreeFinder_pixel_to_epsg3857(abs_px2, abs_py2, zoom, scale)
                  IN  IF ~p.ok THEN p
                      ELSE Ok(<< p.val, geodesic(p.val, <<lat, lon>>), box >>)
        ELSE LET q == TreeFinder_pixel_to_epsg4326(x_center2, y_center2,
                                                   img_width, img_height, bbox) IN
             IF ~q.ok THEN q
             ELSE LET pred == << q.val[2], q.val[1] >>
                  IN  Ok(<< pred, geodesic(pred, <<lat, lon>>), box >>)

TreeFinder_calculate_distances(lat, lon, img_width, img_height, pred_boxes, convert_coords, bbox, zoom, scale) ==
    LET rec(i) == TreeFinder_BoxRecord(lat, lon, img_width, img_height, pred_boxes[i],
                                       convert_coords, bbox, zoom, scale)
        bad == { i \in 1 .. Len(pred_boxes) : ~rec(i).ok }
    IN  IF bad # {} THEN rec(CHOOSE i \in bad : \A j \in bad : i <= j)
        ELSE Ok([i \in 1 .. Len(pred_boxes) |-> rec(i).val])

(***************************************************************************)
(* TreeFinder.find_closest_tree and the pieces it shares with get_stats.   *)
(***************************************************************************)

\* TreeFinder._get_image_metadata: None when the json file does not exist.
get_image_metadata(file) ==
    IF ~file.exists THEN PyNone ELSE [t |-> "dict", v |-> file.json]

\* Python's "not metadata": None and the empty dict are both falsy.
NotMetadata(metadata) ==
    metadata.t = "NoneType" \/ (metadata.t = "dict" /\ DOMAIN metadata.v = {})

\* metadata.get("bbox", ""), metadata.get("zoom", ""), metadata.get("scale", 1)
GetBbox(d)  == IF "bbox" \in DOMAIN d THEN PyTuple(d.bbox) ELSE PyStr
GetZoom(d)  == IF "zoom" \in DOMAIN d THEN PyInt(d.zoom) ELSE PyStr
GetScale(d) == IF "scale" \in DOMAIN d THEN PyInt(d.scale) ELSE PyInt(1)

\* Mutation of SortInsert: a sort that is not stable (a record goes in front
\* of the records of equal distance).
SortInsert_Unstable(sorted, r) ==
    LET k == Cardinality({ i \in 1 .. Len(sorted) : sorted[i][2] < r[2] })
    IN  SubSeq(sorted, 1, k) \o <<r>> \o SubSeq(sorted, k + 1, Len(sorted))

\* distances.sort(key=lambda x: x[1]): list.sort is stable, so a record goes
\* behind every record already placed whose distance is not larger.
SortInsert(sorted, r) ==
    LET k == Cardinality({ i \in 1 .. Len(sorted) : sorted[i][2] <= r[2] })
    IN  SubSeq(sorted, 1, k) \o <<r>> \o SubSeq(sorted, k + 1, Len(sorted))

RECURSIVE SortPrefix(_, _)
SortPrefix(distances, n) ==
    IF n = 0 THEN <<>> ELSE SortInsert(SortPrefix(distances, n - 1), distances[n])

SortByDistance(distances) == SortPrefix(distances, Len(distances))

\* Mutation of Flagged: the comparison made strict.
Flagged_Strict(best_dist, flag_threshold) == best_dist > flag_threshold

\* flagged = best_dist >= flag_threshold
Flagged(best_dist, flag_threshold) == best_dist >= flag_threshold

\* The transform path a call takes: chosen by the convert_coords flag.
PathTaken(convert_coords) == IF convert_coords THEN "mercator" ELSE "interpolation"

\* The reference pixel drawn on the result image.
ReferencePixel(lat, lon, bbox, img_size, convert_coords) ==
    IF convert_coords
    THEN Ok(<< img_size[1] \div 2, img_size[2] \div 2 >>)
    ELSE TreeFinder_epsg4326_to_pixel(lat, lon, bbox, img_size)

\* What a call does: returns None, raises, or returns the triple
\* (best_dist, flagged, result_image); the result image is the input image
\* with best_box and the reference pixel drawn on it.
find_closest_tree(img, convert_coords, flag_threshold) ==
    LET pred_boxes == img.boxes
        metadata == get_image_metadata(img.meta)
    IN  IF NotMetadata(metadata) THEN [kind |-> "None"]
        ELSE
        LET d == metadata.v
            lat == d.lat
            lon == d.lon
            bbox == GetBbox(d)
            zoom == GetZoom(d)
            scale == GetScale(d)
            img_size == img.shape
            path == PathTaken(convert_coords)
            distances == TreeFinder_calculate_distances(
                             lat, lon, img_size[1], img_size[2], pred_boxes,
                             convert_coords, bbox, zoom, scale)
        IN  IF ~distances.ok
            THEN [kind |-> "raise", exc |-> distances.exc, path |-> path]
            ELSE
            LET sorted == SortByDistance(distances.val) IN
            IF Len(sorted) = 0
            THEN [kind |-> "raise", exc |-> "IndexError", path |-> path]
            ELSE
            LET best_box == sorted[1][3]
                best_dist == sorted[1][2]
                flagged == Flagged(best_dist, flag_threshold)
                point == ReferencePixel(lat, lon, bbox, img_size, convert_coords)
            IN  IF ~point.ok
                THEN [kind |-> "raise", exc |-> point.exc, path |-> path]
                ELSE [kind |-> "return", best_dist |-> best_dist, flagged |-> flagged,
                      best_box |-> best_box, point |-> point.val, path |-> path,
                      distances |-> distances.val]

(***************************************************************************)
(* TreeFinder.get_stats, one step per file that glob enumerates.           *)
(***************************************************************************)
Labels == { "static", "tiles", "wms" }

TypeLists == SeqsUpTo(Labels, MaxDatasets)

\* The files a dataset directory may hold.
BatchBoxLists ==
    { <<>>, << Box(0, 0, 1, 1) >>, << Box(2, 0, 4, 2), Box(0, 0, 2, 2) >> }

BatchImages == [shape : { <<2, 4>> }, boxes : BatchBoxLists, meta : MetaFiles]

\* The rest of the loop body once metadata is there: the fields are read,
\* the distances computed and sorted, and the best distance taken.
BestDistance(img, d, convert_coords) ==
    LET pred_boxes == img.boxes
        lat == d.lat
        lon == d.lon
        bbox == GetBbox(d)
        zoom == GetZoom(d)
        scale == GetScale(d)
        img_size == img.shape
        distances == TreeFinder_calculate_distances(
                         lat, lon, img_size[1], img_size[2], pred_boxes,
                         convert_coords, bbox, zoom, scale)
    IN  IF ~distances.ok THEN [kind |-> "raise", exc |-> distances.exc]
        ELSE
        LET sorted == SortByDistance(distances.val) IN
        IF Len(sorted) = 0 THEN [kind |-> "raise", exc |-> "IndexError"]
        ELSE [kind |-> "append", best_dist |-> sorted[1][2]]

\* Mutation of ProcessFile: the check for missing metadata left out, so that
\* metadata.get fails on None and the empty object's lat and lon are None.
ProcessFile_NoCheck(img, convert_coords) ==
    LET metadata == get_image_metadata(img.meta)
    IN  IF metadata.t = "NoneType" THEN [kind |-> "raise", exc |-> "AttributeError"]
        ELSE IF DOMAIN metadata.v = {}
        THEN [kind |-> "raise",
              exc |-> IF Len(img.boxes) = 0 THEN "IndexError" ELSE "TypeError"]
        ELSE BestDistance(img, metadata.v, convert_coords)

\* The body of the inner loop for one file: "skip" (continue), "raise", or
\* "append" with the best distance.
ProcessFile(img, convert_coords) ==
    LET metadata == get_image_metadata(img.meta)
    IN  IF NotMetadata(metadata) THEN [kind |-> "skip"]
        ELSE BestDistance(img, metadata.v, convert_coords)

\* stats[type] = type_stats
DictSet(dict, key, value) ==
    [k \in DOMAIN dict \cup {key} |-> IF k = key THEN value ELSE dict[k]]

EmptyDict == [k \in {} |-> <<>>]

NoCall == [kind |-> "idle"]

TransformsIdle ==
    /\ trArgs = NoCall
    /\ trOut = NoCall
    /\ trBack = NoCall

BatchIdle ==
    /\ pc = "idle"
    /\ types = <<>>
    /\ ds = 0
    /\ type_stats = <<>>
    /\ stats = EmptyDict
    /\ raised = ""
    /\ log = <<>>
    /\ image = NoCall

\* The streams of the process.  sys.stdout and sys.stderr are bound to the
\* stream installed at start-up or to a handle on os.devnull, which is named
\* by the thread that opened it.
Threads    == 1 .. MaxThreads
Console    == [kind |-> "console"]
Devnull(t) == [kind |-> "devnull", by |-> t]
Unset      == [kind |-> "unset"]

OutputIdle ==
    /\ sys_stdout = Console
    /\ sys_stderr = Console
    /\ closed = {}
    /\ tpc = [t \in Threads |-> "idle"]
    /\ old_stdout = [t \in Threads |-> Unset]
    /\ old_stderr = [t \in Threads |-> Unset]
    /\ detect = [t \in Threads |-> "pending"]
    /\ tcall = NoCall
    /\ tout = [t \in Threads |-> NoCall]

SearchIdle ==
    /\ srArgs = NoCall
    /\ srOut = NoCall

CrawlIdle ==
    /\ crArgs = NoCall
    /\ crawler = NoCall
    /\ crawl_data = NoCall

(***************************************************************************)
(* find_closest_tree(filename, convert_coords, flag_threshold): the        *)
(* arguments are drawn at the start, the call acts on them.                *)
(***************************************************************************)
LocCalls ==
    [kind : {"call"}, img : Images, convert_coords : BOOLEAN,
     flag_threshold : FlagThresholds]

InitLocalize ==
    /\ locArgs \in LocCalls
    /\ locOut = NoCall
    /\ distArgs = NoCall
    /\ distOut = NoCall
    /\ tfOut = NoCall
    /\ BatchIdle
    /\ TransformsIdle
    /\ OutputIdle
    /\ SearchIdle
    /\ CrawlIdle

FindClosestTree ==
    /\ locOut = NoCall
    /\ locOut' = find_closest_tree(locArgs.img, locArgs.convert_coords,
                                   locArgs.flag_threshold)
    /\ UNCHANGED <<locArgs, distVars, batchVars, trVars, outVars, srVars, crVars>>

(***************************************************************************)
(* get_stats(paths, types).                                                *)
(***************************************************************************)
InitBatch ==
    /\ locArgs = NoCall
    /\ locOut = NoCall
    /\ distArgs = NoCall
    /\ distOut = NoCall
    /\ tfOut = NoCall
    /\ BatchIdle
    /\ TransformsIdle
    /\ OutputIdle
    /\ SearchIdle
    /\ CrawlIdle

\* get_stats is entered: stats = {} and the outer loop starts, or the call
\* returns at once when there is no dataset.
GetStatsStart ==
    /\ pc = "idle"
    /\ \E tys \in TypeLists :
        /\ types' = tys
        /\ pc' = IF Len(tys) = 0 THEN "returned" ELSE "files"
        /\ ds' = IF Len(tys) = 0 THEN 0 ELSE 1
    /\ stats' = EmptyDict
    /\ type_stats' = <<>>
    /\ raised' = ""
    /\ log' = <<>>
    /\ image' = NoCall
    /\ UNCHANGED <<locVars, distVars, trVars, outVars, srVars, crVars>>

\* What the history keeps of one enumerated file.
LogEntry(type, img, out) ==
    [type |-> type,
     exists |-> img.meta.exists,
     kind |-> out.kind,
     best_dist |-> IF out.kind = "append" THEN out.best_dist ELSE -1]

\* One pass of the inner loop, on the next file of glob's list.
GetStatsFile ==
    /\ pc = "files"
    /\ Len(log) < MaxFiles
    /\ \E img \in BatchImages :
        LET type == types[ds]
            convert_coords == (type = "static")
        IN  \E out \in { ProcessFile(img, convert_coords) } :
            /\ log' = Append(log, LogEntry(type, img, out))
            /\ image' = img
            /\ IF out.kind = "raise"
               THEN pc' = "raised" /\ raised' = out.exc /\ UNCHANGED type_stats
               ELSE /\ UNCHANGED <<pc, raised>>
                    /\ type_stats' = IF out.kind = "append"
                                     THEN Append(type_stats, out.best_dist)
                                     ELSE type_stats
    /\ UNCHANGED <<types, ds, stats, locVars, distVars, trVars, outVars, srVars, crVars>>

\* glob's list is exhausted: stats[type] = type_stats, then the next dataset
\* starts with type_stats = [], or get_stats returns stats.
GetStatsEndDataset ==
    /\ pc = "files"
    /\ stats' = DictSet(stats, types[ds], type_stats)
    /\ IF ds = Len(types)
       THEN pc' = "returned" /\ UNCHANGED <<ds, type_stats>>
       ELSE pc' = "files" /\ ds' = ds + 1 /\ type_stats' = <<>>
    /\ UNCHANGED <<types, raised, log, image, locVars, distVars, trVars, outVars, srVars, crVars>>

(***************************************************************************)
(* distance_utils.calculate_distances called directly.                     *)
(***************************************************************************)
RefPoints == { <<0, 0>>, << MercatorLat(NorthK), -8 >> }
ImgSides  == { 2, 4 }

\* Boxes a caller may pass besides the detector's: one without width, one
\* whose corners are exchanged.
DegenerateBoxes == { Box(1, 0, 1, 1), Box(2, 2, 0, 0) }
DistBoxLists    == SeqsUpTo(BoxSet \cup DegenerateBoxes, MaxBoxes)

DistCalls ==
    [kind : {"call"}, ref : RefPoints, img_width : ImgSides, img_height : ImgSides,
     pred_boxes : DistBoxLists, convert_coords : BOOLEAN,
     bbox : { PyNone, PyTuple(MetaWMS.bbox) },
     zoom : { PyNone, PyInt(0), PyInt(1) },
     scale : { PyNone, PyInt(1), PyInt(2) }]

InitDistances ==
    /\ locArgs = NoCall
    /\ locOut = NoCall
    /\ distArgs \in DistCalls
    /\ distOut = NoCall
    /\ tfOut = NoCall
    /\ BatchIdle
    /\ TransformsIdle
    /\ OutputIdle
    /\ SearchIdle
    /\ CrawlIdle

CalculateDistances ==
    /\ distOut = NoCall
    /\ distOut' = [kind |-> "done",
                   out |-> calculate_distances(
                               distArgs.ref[1], distArgs.ref[2],
                               distArgs.img_width, distArgs.img_height,
                               distArgs.pred_boxes, distArgs.convert_coords,
                               distArgs.bbox, distArgs.zoom, distArgs.scale)]
    /\ UNCHANGED <<distArgs, tfOut, locVars, batchVars, trVars, outVars, srVars, crVars>>

\* TreeFinder._calculate_distances called with the same arguments.
TreeFinderCalculateDistances ==
    /\ tfOut = NoCall
    /\ tfOut' = [kind |-> "done",
                 out |-> TreeFinder_calculate_distances(
                             distArgs.ref[1], distArgs.ref[2],
                             distArgs.img_width, distArgs.img_height,
                             distArgs.pred_boxes, distArgs.convert_coords,
                             distArgs.bbox, distArgs.zoom, distArgs.scale)]
    /\ UNCHANGED <<distArgs, distOut, locVars, batchVars, trVars, outVars, srVars, crVars>>

(***************************************************************************)
(* The transforms of distance_utils called directly.  A call is named by   *)
(* its kind; the arguments are drawn at the start and the call acts on     *)
(* them.                                                                   *)
(***************************************************************************)

\* Geographic boxes (xmin, ymin, xmax, ymax): the box of the WMS metadata,
\* a box without width and a box without height.
GeoBox   == MetaWMS.bbox
GeoBoxes == { GeoBox,
              << GeoBox[1], GeoBox[2], GeoBox[1], GeoBox[4] >>,
              << GeoBox[1], MetaWMS.lat, GeoBox[3], MetaWMS.lat >> }

\* Pixel coordinates in half pixels, inside and outside the images.
PixelHalves == { -2, 0, 2, 3, 4, 8, 10 }

\* Image sides, the empty image included.
SidesOrZero == ImgSides \cup {0}

\* Image sizes (width, height), square or not; the sides of EvenSizes divide
\* the sides of GeoBox, which keeps the way back from a pixel exact.
EvenSizes == { <<2, 2>>, <<2, 4>>, <<4, 2>> }
ImgSizes  == EvenSizes \cup { <<5, 3>> }

\* Latitudes and longitudes inside GeoBox, on its edges and outside it.
BoxLats == { GeoBox[2] - 4, GeoBox[2], GeoBox[2] + 4, MetaWMS.lat,
             MetaWMS.lat + 3, GeoBox[4], GeoBox[4] + 4, GeoBox[4] + 16 }
BoxLons == { GeoBox[1] - 20, GeoBox[1] - 4, GeoBox[1], GeoBox[1] + 4,
             MetaWMS.lon, MetaWMS.lon + 3, GeoBox[3], GeoBox[3] + 4 }

\* Latitudes up to the poles, longitudes up to and beyond the antimeridian.
WorldLats == { 0, MercatorLat(NorthK), -MercatorLat(NorthK),
               World \div 4, -(World \div 4) }
WorldLons == { -HalfWorld - 8, -HalfWorld, -8, 0, HalfWorld, HalfWorld + 8 }

Zooms  == { PyInt(0), PyInt(1) }
Scales == { PyInt(1), PyInt(2) }

\* Reference points and offsets given to WMSExtractor.download_image: the
\* point of the WMS metadata, and longitudes next to 90 degrees east and
\* west, where the spacing of the floats changes.
WmsLats    == { 0, MetaWMS.lat }
WmsLons    == { MetaWMS.lon, 1 - World \div 4, World \div 4 - 3 }
WmsOffsets == { 2, 6, MetaWMS.lon - MetaWMS.bbox[1] }

\* Tile pixels in half pixels whose map fraction the latitude table holds.
TilePixelCalls ==
    { c \in [kind : {"pixel_to_epsg3857"},
             x2 : { -2, 0, 2 * TILE_SIZE - 16, 2 * TILE_SIZE, 8 * TILE_SIZE + 2 },
             y2 : { (2 * TILE_SIZE * NorthK) \div FracDen,
                    (2 * TILE_SIZE * NorthK) \div FracDen + 2,
                    TILE_SIZE, 2 * TILE_SIZE },
             zoom : Zooms, scale : Scales] :
        (c.y2 * FracDen) \div (2 * MapSize(c.zoom, c.scale)) \in MercatorDomain }

TransformCalls ==
    [kind : {"pixel_to_epsg4326"}, x2 : PixelHalves, y2 : PixelHalves,
     img_width : SidesOrZero, img_height : SidesOrZero, bbox : GeoBoxes]
    \cup [kind : {"epsg4326_to_pixel"}, lat : BoxLats, lon : BoxLons,
          bbox : GeoBoxes, img_size : EvenSizes]
    \cup [kind : {"epsg3857_to_pixel"}, lat : WorldLats, lon : WorldLons,
          zoom : Zooms, scale : Scales]
    \cup TilePixelCalls
    \cup [kind : {"get_coordinate_point"}, lat : BoxLats, lon : BoxLons,
          bbox : { PyNone, PyTuple(GeoBox) }, img_size : ImgSizes,
          convert_coords : BOOLEAN]
    \cup [kind : {"get_bbox"}, lat : WmsLats, lon : WmsLons,
          offset : WmsOffsets, img_size : ImgSizes]

InitTransforms ==
    /\ locArgs = NoCall
    /\ locOut = NoCall
    /\ distArgs = NoCall
    /\ distOut = NoCall
    /\ tfOut = NoCall
    /\ BatchIdle
    /\ trArgs \in TransformCalls
    /\ trOut = NoCall
    /\ trBack = NoCall
    /\ OutputIdle
    /\ SearchIdle
    /\ CrawlIdle

Done(out) == [kind |-> "done", out |-> out]

PixelToEpsg4326 ==
    /\ trArgs.kind = "pixel_to_epsg4326"
    /\ trOut = NoCall
    /\ trOut' = Done(pixel_to_epsg4326(trArgs.x2, trArgs.y2, trArgs.img_width,
                                       trArgs.img_height, PyTuple(trArgs.bbox)))
    /\ UNCHANGED <<trArgs, trBack, locVars, distVars, batchVars, outVars, srVars, crVars>>

Epsg4326ToPixel ==
    /\ trArgs.kind = "epsg4326_to_pixel"
    /\ trOut = NoCall
    /\ trOut' = Done(epsg4326_to_pixel(trArgs.lat, trArgs.lon,
                                       PyTuple(trArgs.bbox), trArgs.img_size))
    /\ UNCHANGED <<trArgs, trBack, locVars, distVars, batchVars, outVars, srVars, crVars>>

\* The pixel that epsg4326_to_pixel returned is taken back to the box.
Epsg4326ToPixelAndBack ==
    /\ trArgs.kind = "epsg4326_to_pixel"
    /\ trOut.kind = "done"
    /\ trOut.out.ok
    /\ trBack = NoCall
    /\ trBack' = Done(pixel_to_epsg4326(2 * trOut.out.val[1], 2 * trOut.out.val[2],
                                        trArgs.img_size[1], trArgs.img_size[2],
                                        PyTuple(trArgs.bbox)))
    /\ UNCHANGED <<trArgs, trOut, locVars, distVars, batchVars, outVars, srVars, crVars>>

Epsg3857ToPixel ==
    /\ trArgs.kind = "epsg3857_to_pixel"
    /\ trOut = NoCall
    /\ trOut' = Done(epsg3857_to_pixel(trArgs.lat, trArgs.lon,
                                       trArgs.zoom, trArgs.scale))
    /\ UNCHANGED <<trArgs, trBack, locVars, distVars, batchVars, outVars, srVars, crVars>>

PixelToEpsg3857 ==
    /\ trArgs.kind = "pixel_to_epsg3857"
    /\ trOut = NoCall
    /\ trOut' = Done(pixel_to_epsg3857(trArgs.x2, trArgs.y2,
                                       trArgs.zoom, trArgs.scale))
    /\ UNCHANGED <<trArgs, trBack, locVars, distVars, batchVars, outVars, srVars, crVars>>

GetCoordinatePoint ==
    /\ trArgs.kind = "get_coordinate_point"
    /\ trOut = NoCall
    /\ trOut' = Done(get_coordinate_point(trArgs.lat, trArgs.lon, trArgs.bbox,
                                          trArgs.img_size, trArgs.convert_coords))
    /\ UNCHANGED <<trArgs, trBack, locVars, distVars, batchVars, outVars, srVars, crVars>>

\* WMSExtractor.download_image builds the box that goes into the metadata.
BuildBbox ==
    /\ trArgs.kind = "get_bbox"
    /\ trOut = NoCall
    /\ trOut' = Done(Ok(get_bbox(trArgs.lat, trArgs.lon, trArgs.offset)))
    /\ UNCHANGED <<trArgs, trBack, locVars, distVars, batchVars, outVars, srVars, crVars>>

\* The reference pixel of the image downloaded with that box.
GetCoordinatePointInBbox ==
    /\ trArgs.kind = "get_bbox"
    /\ trOut.kind = "done"
    /\ trBack = NoCall
    /\ trBack' = Done(get_coordinate_point(trArgs.lat, trArgs.lon,
                                           PyTuple(trOut.out.val),
                                           trArgs.img_size, FALSE))
    /\ UNCHANGED <<trArgs, trOut, locVars, distVars, batchVars, outVars, srVars, crVars>>

(***************************************************************************)
(* find_closest_tree called from several threads.  _predict_boxes runs     *)
(* the detector inside suppress_output, which rebinds the two streams of   *)
(* the process; a thread may be preempted between any two statements.      *)
(* tpc[t] names the statement thread t executes next.                      *)
(***************************************************************************)

\* The call every thread makes.
ThreadCalls ==
    { c \in LocCalls :
        /\ c.img.shape = <<2, 2>>
        /\ c.img.boxes = << Box(0, 0, 1, 1) >>
        /\ c.img.meta \in { NoFile, File(MetaWMS) }
        /\ ~c.convert_coords
        /\ c.flag_threshold = 10 }

InitThreads ==
    /\ locArgs = NoCall
    /\ locOut = NoCall
    /\ distArgs = NoCall
    /\ distOut = NoCall
    /\ tfOut = NoCall
    /\ BatchIdle
    /\ TransformsIdle
    /\ sys_stdout = Console
    /\ sys_stderr = Console
    /\ closed = {}
    /\ tpc = [t \in Threads |-> "idle"]
    /\ old_stdout = [t \in Threads |-> Unset]
    /\ old_stderr = [t \in Threads |-> Unset]
    /\ detect = [t \in Threads |-> "pending"]
    /\ tcall \in ThreadCalls
    /\ tout = [t \in Threads |-> NoCall]
    /\ SearchIdle
    /\ CrawlIdle

Goto(t, label) == tpc' = [tpc EXCEPT ![t] = label]

\* with open(os.devnull, "w") as devnull: old_stdout = sys.stdout
SaveStdout(t) ==
    /\ tpc[t] = "idle"
    /\ old_stdout' = [old_stdout EXCEPT ![t] = sys_stdout]
    /\ Goto(t, "save_stderr")
    /\ UNCHANGED <<sys_stdout, sys_stderr, closed, old_stderr, detect, tcall, tout,
                   locVars, distVars, batchVars, trVars, srVars, crVars>>

\* old_stderr = sys.stderr
SaveStderr(t) ==
    /\ tpc[t] = "save_stderr"
    /\ old_stderr' = [old_stderr EXCEPT ![t] = sys_stderr]
    /\ Goto(t, "set_stdout")
    /\ UNCHANGED <<sys_stdout, sys_stderr, closed, old_stdout, detect, tcall, tout,
                   locVars, distVars, batchVars, trVars, srVars, crVars>>

\* sys.stdout = devnull
SetStdout(t) ==
    /\ tpc[t] = "set_stdout"
    /\ sys_stdout' = Devnull(t)
    /\ Goto(t, "set_stderr")
    /\ UNCHANGED <<sys_stderr, closed, old_stdout, old_stderr, detect, tcall, tout,
                   locVars, distVars, batchVars, trVars, srVars, crVars>>

\* sys.stderr = devnull
SetStderr(t) ==
    /\ tpc[t] = "set_stderr"
    /\ sys_stderr' = Devnull(t)
    /\ Goto(t, "predict")
    /\ UNCHANGED <<sys_stdout, closed, old_stdout, old_stderr, detect, tcall, tout,
                   locVars, distVars, batchVars, trVars, srVars, crVars>>

\* A write to a stream fails with ValueError when the stream is a handle
\* that has been closed.
WriteFails(stream) == stream.kind = "devnull" /\ stream.by \in closed

\* yield: the body of the with statement, self.model.predict_tile(...).
\* The detector writes nothing, or writes to the stream sys.stdout or
\* sys.stderr is bound to at that moment.
PredictTile(t) ==
    /\ tpc[t] = "predict"
    /\ \E target \in { "nothing", "stdout", "stderr" } :
        LET fails == CASE target = "nothing" -> FALSE
                       [] target = "stdout" -> WriteFails(sys_stdout)
                       [] target = "stderr" -> WriteFails(sys_stderr)
        IN  detect' = [detect EXCEPT ![t] = IF fails THEN "ValueError" ELSE "boxes"]
    /\ Goto(t, "restore_stdout")
    /\ UNCHANGED <<sys_stdout, sys_stderr, closed, old_stdout, old_stderr, tcall, tout,
                   locVars, distVars, batchVars, trVars, srVars, crVars>>

\* finally: sys.stdout = old_stdout
RestoreStdout(t) ==
    /\ tpc[t] = "restore_stdout"
    /\ sys_stdout' = old_stdout[t]
    /\ Goto(t, "restore_stderr")
    /\ UNCHANGED <<sys_stderr, closed, old_stdout, old_stderr, detect, tcall, tout,
                   locVars, distVars, batchVars, trVars, srVars, crVars>>

\* sys.stderr = old_stderr
RestoreStderr(t) ==
    /\ tpc[t] = "restore_stderr"
    /\ sys_stderr' = old_stderr[t]
    /\ Goto(t, "close")
    /\ UNCHANGED <<sys_stdout, closed, old_stdout, old_stderr, detect, tcall, tout,
                   locVars, distVars, batchVars, trVars, srVars, crVars>>

\* The with statement is left: devnull is closed.
CloseDevnull(t) ==
    /\ tpc[t] = "close"
    /\ closed' = closed \cup {t}
    /\ Goto(t, "localize")
    /\ UNCHANGED <<sys_stdout, sys_stderr, old_stdout, old_stderr, detect, tcall, tout,
                   locVars, distVars, batchVars, trVars, srVars, crVars>>

\* What find_closest_tree does once detection is over: the exception of the
\* detector leaves the call, or the rest of the function runs.
AfterDetection(detected, call) ==
    IF detected = "ValueError"
    THEN [kind |-> "raise", exc |-> "ValueError", path |-> "detection"]
    ELSE find_closest_tree(call.img, call.convert_coords, call.flag_threshold)

\* The rest of find_closest_tree, which touches nothing shared.
Localize(t) ==
    /\ tpc[t] = "localize"
    /\ tout' = [tout EXCEPT ![t] = AfterDetection(detect[t], tcall)]
    /\ Goto(t, "returned")
    /\ UNCHANGED <<sys_stdout, sys_stderr, closed, old_stdout, old_stderr, detect, tcall,
                   locVars, distVars, batchVars, trVars, srVars, crVars>>

(***************************************************************************)
(* SimilaritySearcher.search with the "document" strategy.  A string is a  *)
(* sequence of characters; a text cell of the frame is null or a string.   *)
(* polars' str.contains reads its argument as a regular expression, in     *)
(* which "." stands for any character.                                     *)
(***************************************************************************)
Chars == { "a", "A", "." }

Strings     == SeqsUpTo(Chars, MaxText)
Null        == [null |-> TRUE]
Text(chars) == [null |-> FALSE, chars |-> chars]
Cells       == {Null} \cup { Text(chars) : chars \in Strings }

\* pl.DataFrame of id and text columns: row i has id i.
Frames ==
    { [i \in 1 .. Len(cells) |-> [id |-> i, text |-> cells[i]]] :
        cells \in SeqsUpTo(Cells, MaxDocs) }

\* keyword_filters: None or a list of strings.
KeywordFilters ==
    {PyNone} \cup { PyTuple(ks) : ks \in SeqsUpTo(Strings \ {<<>>}, MaxKeywords) }

\* str.lower() and str.to_lowercase()
LowerChar(c)   == IF c = "A" THEN "a" ELSE c
ToLower(chars) == [i \in 1 .. Len(chars) |-> LowerChar(chars[i])]

\* The regular expression pattern matches chars from position i on.
RegexMatchesAt(chars, pattern, i) ==
    \A j \in 1 .. Len(pattern) : pattern[j] = "." \/ pattern[j] = chars[i + j - 1]

\* str.contains(pattern): some part of the string matches the pattern.
StrContains(chars, pattern) ==
    \E i \in 1 .. Len(chars) - Len(pattern) + 1 : RegexMatchesAt(chars, pattern, i)

\* The boolean mask of one row: a null text gives a null match, and
\* False & null is False.
RowKept(row, keyword_filters) ==
    /\ ~row.text.null
    /\ (keyword_filters.t = "tuple" /\ Len(keyword_filters.v) > 0)
           => \A k \in 1 .. Len(keyword_filters.v) :
                  StrContains(ToLower(row.text.chars), ToLower(keyword_filters.v[k]))

filter_documents(document_df, keyword_filters) ==
    SelectSeq(document_df, LAMBDA row : RowKept(row, keyword_filters))

\* search: the ids of the rows returned and the ids of the documents whose
\* text was embedded.  The rows come back ordered by similarity, which the
\* embedding model decides: the result keeps them as a set.
search(document_df, keyword_filters) ==
    LET filtered == filter_documents(document_df, keyword_filters)
        ids == { filtered[i].id : i \in 1 .. Len(filtered) }
    IN  IF Len(filtered) = 0
        THEN [kind |-> "return", ids |-> {}, embedded |-> {}, query_embedded |-> FALSE]
        ELSE [kind |-> "return", ids |-> ids, embedded |-> ids, query_embedded |-> TRUE]

SearchCalls ==
    [kind : {"call"}, document_df : Frames, keyword_filters : KeywordFilters]

InitSearch ==
    /\ locArgs = NoCall
    /\ locOut = NoCall
    /\ distArgs = NoCall
    /\ distOut = NoCall
    /\ tfOut = NoCall
    /\ BatchIdle
    /\ TransformsIdle
    /\ OutputIdle
    /\ srArgs \in SearchCalls
    /\ srOut = NoCall
    /\ CrawlIdle

Search ==
    /\ srOut = NoCall
    /\ srOut' = search(srArgs.document_df, srArgs.keyword_filters)
    /\ UNCHANGED <<srArgs, locVars, distVars, batchVars, trVars, outVars, crVars>>

(***************************************************************************)
(* Crawler: the constructor builds the filter chain, deep_crawl collects   *)
(* the results of the crawl.                                               *)
(***************************************************************************)

\* The filter classes _initialize_filters knows, and one of crawl4ai's it
\* does not.
KnownFilters == { "SEOFilter", "ContentRelevanceFilter", "ContentTypeFilter",
                  "URLPatternFilter" }
FilterNames  == KnownFilters \cup { "DomainFilter" }

\* An entry of the filters list: a dict, whose "type" names a class or is
\* missing, or a filter object.
FilterDict(type)      == [t |-> "dict", type |-> type]
FilterInstance(class) == [t |-> "instance", class |-> class]
FilterEntries ==
    { FilterDict(type) : type \in FilterNames \cup { "None" } }
        \cup { FilterInstance(class) : class \in { "URLPatternFilter", "DomainFilter" } }

FilterLists == {PyNone} \cup { PyTuple(fs) : fs \in SeqsUpTo(FilterEntries, MaxFilters) }

\* The loop of _initialize_filters, entry by entry: a dict of a known type
\* appends a new filter of that class, a dict of another type appends
\* nothing, anything else is appended as it is.
RECURSIVE FilterList(_, _)
FilterList(filters, n) ==
    IF n = 0 THEN <<>>
    ELSE LET filter_list == FilterList(filters, n - 1)
             f == filters[n]
         IN  IF f.t = "dict"
             THEN IF f.type \in KnownFilters
                  THEN Append(filter_list, [t |-> "instance", class |-> f.type])
                  ELSE filter_list
             ELSE Append(filter_list, f)

initialize_filters(filters) ==
    IF filters.t = "tuple" /\ Len(filters.v) > 0
    THEN FilterList(filters.v, Len(filters.v))
    ELSE <<>>

CrawlTypes == { "html", "pdf" }

\* Crawler(filters=..., crawl_type=...)
Crawler(filters, crawl_type) ==
    IF crawl_type \notin CrawlTypes
    THEN [kind |-> "raise", exc |-> "ValueError"]
    ELSE [kind |-> "object", filter_chain |-> initialize_filters(filters),
          crawl_type |-> crawl_type]

\* A result of the crawl: result i has the url and the markdown of page i;
\* its response headers hold a content-type or none.
ContentTypes == { "text/html", "application/pdf", "absent" }
CrawlResults == [success : BOOLEAN, content_type : ContentTypes]
ResultLists  == SeqsUpTo(CrawlResults, MaxResults)

\* The loop over the results: crawl_data after the first n results, or the
\* exception raised on the way.
RECURSIVE CrawlData(_, _, _)
CrawlData(results, crawl_type, n) ==
    IF n = 0 THEN Ok(<<>>)
    ELSE LET before == CrawlData(results, crawl_type, n - 1)
             result == results[n]
         IN  IF ~before.ok THEN before
             ELSE IF ~result.success THEN before
             ELSE IF result.content_type = "absent" THEN Raise("KeyError")
             ELSE IF crawl_type = "pdf" /\ result.content_type = "application/pdf"
             THEN Ok(Append(before.val, [t |-> "str", url |-> n]))
             ELSE IF crawl_type = "html"
             THEN Ok(Append(before.val, [t |-> "tuple", url |-> n, markdown |-> n]))
             ELSE before

\* deep_crawl: the list collected, or the exception.
deep_crawl(self, results) ==
    LET out == CrawlData(results, self.crawl_type, Len(results))
    IN  IF out.ok THEN [kind |-> "return", crawl_data |-> out.val]
        ELSE [kind |-> "raise", exc |-> out.exc]

CrawlerCalls ==
    [kind : {"call"}, filters : FilterLists, crawl_type : CrawlTypes \cup { "docx" },
     results : ResultLists]

InitCrawler ==
    /\ locArgs = NoCall
    /\ locOut = NoCall
    /\ distArgs = NoCall
    /\ distOut = NoCall
    /\ tfOut = NoCall
    /\ BatchIdle
    /\ TransformsIdle
    /\ OutputIdle
    /\ SearchIdle
    /\ crArgs \in CrawlerCalls
    /\ crawler = NoCall
    /\ crawl_data = NoCall

CrawlerInit ==
    /\ crawler = NoCall
    /\ crawler' = Crawler(crArgs.filters, crArgs.crawl_type)
    /\ UNCHANGED <<crArgs, crawl_data, locVars, distVars, batchVars, trVars, outVars, srVars>>

DeepCrawl ==
    /\ crawler.kind = "object"
    /\ crawl_data = NoCall
    /\ crawl_data' = deep_crawl(crawler, crArgs.results)
    /\ UNCHANGED <<crArgs, crawler, locVars, distVars, batchVars, trVars, outVars, srVars>>

NextLocalize == FindClosestTree
NextDistances == CalculateDistances \/ TreeFinderCalculateDistances
NextBatch == GetStatsStart \/ GetStatsFile \/ GetStatsEndDataset
NextTransforms ==
    \/ PixelToEpsg4326
    \/ Epsg4326ToPixel
    \/ Epsg4326ToPixelAndBack
    \/ Epsg3857ToPixel
    \/ PixelToEpsg3857
    \/ GetCoordinatePoint
    \/ BuildBbox
    \/ GetCoordinatePointInBbox

NextThreads ==
    \E t \in Threads :
        \/ SaveStdout(t)
        \/ SaveStderr(t)
        \/ SetStdout(t)
        \/ SetStderr(t)
        \/ PredictTile(t)
        \/ RestoreStdout(t)
        \/ RestoreStderr(t)
        \/ CloseDevnull(t)
        \/ Localize(t)

NextSearch == Search

NextCrawler == CrawlerInit \/ DeepCrawl

SpecLocalize == InitLocalize /\ [][NextLocalize]_vars
SpecDistances == InitDistances /\ [][NextDistances]_vars
SpecBatch == InitBatch /\ [][NextBatch]_vars
SpecTransforms == InitTransforms /\ [][NextTransforms]_vars
SpecThreads == InitThreads /\ [][NextThreads]_vars
SpecSearch == InitSearch /\ [][NextSearch]_vars
SpecCrawler == InitCrawler /\ [][NextCrawler]_vars

(***************************************************************************)
(* Properties of find_closest_tree (SpecLocalize).                         *)
(***************************************************************************)
Called   == locOut.kind # "idle"
Returned == locOut.kind = "return"
ArgMeta  == locArgs.img.meta
ArgBoxes == locArgs.img.boxes

\* The metadata file exists and holds a non-empty object.
HasMetadata == ArgMeta.exists /\ DOMAIN ArgMeta.json # {}

\* C1: localizing an image whose detection list is empty fails with
\* EmptyDetectionError, whatever the mode and the metadata: it neither
\* returns nor fails with another error.
C1_EmptyDetectionError ==
    (Called /\ Len(ArgBoxes) = 0)
        => (locOut.kind = "raise" /\ locOut.exc = "EmptyDetectionError")

\* C2: whenever a result is returned, flagged is exactly
\* (best_dist >= flag_threshold): equality counts as flagged.
C2_FlaggedIsAtOrAboveThreshold ==
    Returned => (locOut.flagged <=> (locOut.best_dist >= locArgs.flag_threshold))

\* C2 witness: a result whose best distance equals the threshold, flagged.
C2_Witness ==
    /\ Returned
    /\ locOut.best_dist = locArgs.flag_threshold
    /\ locOut.flagged

\* The first position of the input list whose record has the least distance.
FirstClosest(distances) ==
    CHOOSE i \in 1 .. Len(distances) :
        /\ \A j \in 1 .. Len(distances) : distances[i][2] <= distances[j][2]
        /\ \A j \in 1 .. i - 1 : distances[j][2] > distances[i][2]

\* C3: the selected record has the least distance of all records, its box is
\* the input box at that position, and among records of equal least distance
\* the first in input order is the one selected.
C3_FirstClosestSelected ==
    Returned =>
        LET i == FirstClosest(locOut.distances) IN
        /\ locOut.best_dist = locOut.distances[i][2]
        /\ \A j \in 1 .. Len(locOut.distances) : locOut.best_dist <= locOut.distances[j][2]
        /\ locOut.best_box = ArgBoxes[i]

\* C3 witness: two different boxes tie on the least distance, and a result
\* where the closest box is not the first of the list.
C3_Witness ==
    /\ Returned
    /\ \E i, j \in 1 .. Len(locOut.distances) :
        /\ i < j
        /\ locOut.distances[i][2] = locOut.best_dist
        /\ locOut.distances[j][2] = locOut.best_dist
        /\ ArgBoxes[i] # ArgBoxes[j]

\* image.shape[:2] is (rows, columns): the width of the image read is its
\* number of columns, its height the number of rows.
WidthOf(shape)  == shape[2]
HeightOf(shape) == shape[1]

\* C27: for every image, also one that is not square, the distances are
\* computed with img_width = columns and img_height = rows of the image, and
\* the reference pixel with the size (width, height) in that order.
C27_WidthIsColumnsHeightIsRows ==
    Returned =>
        LET d == ArgMeta.json
            shape == locArgs.img.shape
            distances == TreeFinder_calculate_distances(
                             d.lat, d.lon, WidthOf(shape), HeightOf(shape), ArgBoxes,
                             locArgs.convert_coords, GetBbox(d), GetZoom(d), GetScale(d))
            point == ReferencePixel(d.lat, d.lon, GetBbox(d),
                                    << WidthOf(shape), HeightOf(shape) >>,
                                    locArgs.convert_coords)
        IN  /\ distances.ok
            /\ locOut.distances = distances.val
            /\ point.ok
            /\ locOut.point = point.val

\* C30: a call on an image whose metadata file does not exist returns None
\* (no exception, no distance, no flag); a call on an image whose metadata
\* file exists and whose detection list is not empty returns the triple.
C30_NoneOnlyWithoutMetadataFile ==
    Called =>
        /\ (~ArgMeta.exists) => locOut.kind = "None"
        /\ (ArgMeta.exists /\ Len(ArgBoxes) > 0) => Returned

(***************************************************************************)
(* Properties of calculate_distances (SpecDistances).                      *)
(***************************************************************************)
DistReturned == distOut.kind = "done" /\ distOut.out.ok

\* C4: calculate_distances returns as many records as there are input boxes,
\* and the record at each position carries the input box of that position,
\* in both modes.
C4_OneRecordPerBoxInPlace ==
    DistReturned =>
        /\ Len(distOut.out.val) = Len(distArgs.pred_boxes)
        /\ \A i \in 1 .. Len(distArgs.pred_boxes) :
               distOut.out.val[i][3] = distArgs.pred_boxes[i]

\* C4 witness: a tile-mode call that returns the records of two different
\* boxes.
C4_Witness ==
    /\ DistReturned
    /\ distArgs.convert_coords
    /\ Len(distArgs.pred_boxes) = 2
    /\ distArgs.pred_boxes[1] # distArgs.pred_boxes[2]

\* A pixel box that is not xmin < xmax and ymin < ymax.
DegenerateBox(box) == box.xmin >= box.xmax \/ box.ymin >= box.ymax

\* C12: a pixel box with xmin >= xmax or ymin >= ymax is rejected:
\* calculate_distances never returns a distance record for such a box.
C12_DegenerateBoxRejected ==
    DistReturned =>
        \A i \in 1 .. Len(distOut.out.val) : ~DegenerateBox(distOut.out.val[i][3])

\* A tile-mode call of calculate_distances that returned its records.
TileReturned == DistReturned /\ distArgs.convert_coords

\* The tile pixel of the reference point of the call, in half pixels.
RefTilePixel2 ==
    epsg3857_to_pixel(distArgs.ref[1], distArgs.ref[2], distArgs.zoom, distArgs.scale).val

\* Twice the centroid of a box, and twice the pixel centre of the image.
Centroid2(box) == << box.xmin + box.xmax, box.ymin + box.ymax >>
ImageCentre2 == << distArgs.img_width, distArgs.img_height >>

\* The coordinate of the tile pixel that lies (dx2, dy2) half pixels from
\* the reference point's tile pixel.
TileCoordinateAt(dx2, dy2) ==
    pixel_to_epsg3857(RefTilePixel2[1] + dx2, RefTilePixel2[2] + dy2,
                      distArgs.zoom, distArgs.scale).val

\* box2 is box1 moved by (dx, dy) pixels.
ShiftedBy(box1, box2, dx, dy) ==
    /\ box2.xmin = box1.xmin + dx /\ box2.xmax = box1.xmax + dx
    /\ box2.ymin = box1.ymin + dy /\ box2.ymax = box1.ymax + dy

\* C25: in tile mode the coordinate of a box is that of the tile pixel
\* (reference point's tile pixel) + (box centroid - image pixel centre); a
\* box whose centroid is the image centre gets the reference point's own
\* tile pixel, and a box moved by (dx, dy) pixels gets the tile pixel moved
\* by (dx, dy).
C25_TilePixelIsReferencePlusOffset ==
    TileReturned =>
        \A i \in 1 .. Len(distArgs.pred_boxes) :
            LET box == distArgs.pred_boxes[i]
                off == << Centroid2(box)[1] - ImageCentre2[1],
                          Centroid2(box)[2] - ImageCentre2[2] >>
            IN  /\ distOut.out.val[i][1] = TileCoordinateAt(off[1], off[2])
                /\ (Centroid2(box) = ImageCentre2)
                       => distOut.out.val[i][1] = TileCoordinateAt(0, 0)
                /\ \A j \in 1 .. Len(distArgs.pred_boxes), dx, dy \in -2 .. 2 :
                       ShiftedBy(box, distArgs.pred_boxes[j], dx, dy)
                           => distOut.out.val[j][1]
                                  = TileCoordinateAt(off[1] + 2 * dx, off[2] + 2 * dy)

\* C25 witness: a tile-mode call returns the records of a box centred on
\* the image, which lies on the reference point, and of a box that is not,
\* which lies elsewhere.
C25_Witness ==
    /\ TileReturned
    /\ Len(distArgs.pred_boxes) = 2
    /\ Centroid2(distArgs.pred_boxes[1]) = ImageCentre2
    /\ distOut.out.val[1][2] = 0
    /\ distOut.out.val[2][2] > 0

\* A tile-mode call returns the records of a box and of the same box moved
\* by one pixel each way, at different coordinates.
C25_ShiftedReached ==
    /\ TileReturned
    /\ Len(distArgs.pred_boxes) = 2
    /\ ShiftedBy(distArgs.pred_boxes[1], distArgs.pred_boxes[2], 1, 1)
    /\ distOut.out.val[1][1] # distOut.out.val[2][1]

\* Both copies of the distance logic have been called on the arguments.
BothCalled == distOut.kind = "done" /\ tfOut.kind = "done"

\* C28: TreeFinder._calculate_distances, with the static transforms of
\* TreeFinder, returns the same list of records as
\* distance_utils.calculate_distances on the same arguments, and raises the
\* same exception where that one raises.
C28_CopiesAgree ==
    BothCalled =>
        /\ tfOut.out.ok = distOut.out.ok
        /\ tfOut.out.ok => tfOut.out.val = distOut.out.val
        /\ (~tfOut.out.ok) => tfOut.out.exc = distOut.out.exc

\* C28 witness: both copies return the records of two different boxes
\* placed in a geographic box, at different coordinates.
C28_Witness ==
    /\ BothCalled
    /\ tfOut.out.ok
    /\ ~distArgs.convert_coords
    /\ Len(tfOut.out.val) = 2
    /\ tfOut.out.val[1][1] # tfOut.out.val[2][1]

\* Both copies fail on a tile-mode call without zoom.
C28_FailureReached ==
    /\ BothCalled
    /\ ~tfOut.out.ok
    /\ distArgs.convert_coords
    /\ Len(distArgs.pred_boxes) > 0

(***************************************************************************)
(* Properties of get_stats (SpecBatch).                                    *)
(***************************************************************************)

\* The sequence stored under a label (nothing when the label has no key).
StatsOf(label) == IF label \in DOMAIN stats THEN stats[label] ELSE <<>>

\* The best distances of the files enumerated so far under a label whose
\* localization succeeded, in enumeration order.
AppendedOf(label) ==
    LET sel == SelectSeq(log, LAMBDA e : e.type = label /\ e.kind = "append")
    IN  [i \in 1 .. Len(sel) |-> sel[i].best_dist]

\* C5: the step that enumerates a file whose metadata file is missing skips
\* it: nothing is raised, no entry is added to the statistics, and the run
\* stays in the loop, where the files after it are processed.
C5_MissingMetadataSkipped ==
    [][ (Len(log') = Len(log) + 1 /\ ~log'[Len(log')].exists)
            => /\ log'[Len(log')].kind = "skip"
               /\ pc' = "files"
               /\ raised' = ""
               /\ type_stats' = type_stats
               /\ stats' = stats ]_vars

\* C5 witness: a file without metadata was skipped and a file enumerated
\* after it had its best distance appended.
C5_Witness ==
    \E i, j \in 1 .. Len(log) :
        /\ i < j
        /\ ~log[i].exists
        /\ log[i].kind = "skip"
        /\ log[j].kind = "append"

\* C6: a file is left out of the statistics only when its metadata file is
\* missing: a file whose metadata file exists either has its best distance
\* appended or ends the run with its error, and the distances appended are
\* all in the mapping returned.
C6_OnlyMissingMetadataLeftOut ==
    /\ \A i \in 1 .. Len(log) : log[i].exists => log[i].kind \in {"append", "raise"}
    /\ pc = "returned" => \A label \in Labels : Len(StatsOf(label)) = Len(AppendedOf(label))

\* C7: when get_stats returns, the sequence under each label holds the best
\* distance of every file of every dataset of that label whose localization
\* succeeded, in enumeration order (also when datasets share a label).
C7_StatsHoldEverySuccess ==
    pc = "returned" => \A label \in Labels : StatsOf(label) = AppendedOf(label)

\* C8: between two files, and when a later file has raised, the output
\* mapping holds the best distances of exactly the files whose
\* localization has succeeded so far.
C8_CommittedBetweenImages ==
    pc \in {"files", "raised"} => \A label \in Labels : StatsOf(label) = AppendedOf(label)

\* The inner loop has just appended the best distance of the file it read.
JustAppended ==
    /\ Len(log) > 0
    /\ log[Len(log)].kind = "append"
    /\ image # NoCall

\* C26: the value get_stats appends for an image whose metadata is present
\* is the best distance find_closest_tree returns for the same image,
\* detections and metadata.
C26_AppendedIsLocalizedBest ==
    JustAppended =>
        \A convert_coords \in BOOLEAN, flag_threshold \in FlagThresholds :
            \E out \in { find_closest_tree(image, convert_coords, flag_threshold) } :
                /\ out.kind = "return"
                /\ out.best_dist = log[Len(log)].best_dist

\* When find_closest_tree is given the flag get_stats derives from the
\* label, the value appended is the best distance it returns.
C26_SameFlagAgrees ==
    JustAppended =>
        \A flag_threshold \in FlagThresholds :
            \E out \in { find_closest_tree(image, log[Len(log)].type = "static",
                                           flag_threshold) } :
                /\ out.kind = "return"
                /\ out.best_dist = log[Len(log)].best_dist

(***************************************************************************)
(* Properties of the mode selection (SpecLocalize).                        *)
(***************************************************************************)

\* The transform path of a metadata variant: the tile variants (zoom, and
\* for static maps scale) use the Mercator path, the geographic-box variant
\* the interpolation.
VariantPath(d) ==
    IF d.type \in {"static", "tiles"} THEN "mercator" ELSE "interpolation"

\* C9: the transform path a call uses on an image with detections is the one
\* of the image's metadata variant, whatever flag the caller passes.
C9_PathFollowsMetadata ==
    (Called /\ HasMetadata /\ "type" \in DOMAIN ArgMeta.json /\ Len(ArgBoxes) > 0)
        => locOut.path = VariantPath(ArgMeta.json)

\* The field the mode in use requires is absent from the metadata.
RequiredFieldAbsent ==
    IF locArgs.convert_coords THEN "zoom" \notin DOMAIN ArgMeta.json
    ELSE "bbox" \notin DOMAIN ArgMeta.json

\* C10: with the field required by the mode in use absent from the metadata
\* (zoom in tile mode, the geographic box otherwise), localization of an
\* image with detections fails with InvalidMetadataError and with no other
\* error.
C10_InvalidMetadataError ==
    (Called /\ HasMetadata /\ RequiredFieldAbsent /\ Len(ArgBoxes) > 0)
        => (locOut.kind = "raise" /\ locOut.exc = "InvalidMetadataError")

(***************************************************************************)
(* Properties of the transforms called directly (SpecTransforms).          *)
(***************************************************************************)
TrKind      == trArgs.kind
TrDone      == trOut.kind = "done"
TrReturned  == TrDone /\ trOut.out.ok

\* The degenerate cases of pixel_to_epsg4326: an image without width or
\* height, a box without width or height.
DegenerateCase ==
    \/ trArgs.img_width = 0
    \/ trArgs.img_height = 0
    \/ trArgs.bbox[3] = trArgs.bbox[1]
    \/ trArgs.bbox[4] = trArgs.bbox[2]

\* C11: pixel_to_epsg4326 called on a degenerate case (image width zero,
\* image height zero, box xmax = xmin, box ymax = ymin) fails with
\* DegenerateBoundingBoxError and returns no coordinate.
C11_DegenerateBoundingBoxError ==
    (TrKind = "pixel_to_epsg4326" /\ TrDone /\ DegenerateCase)
        => (~trOut.out.ok /\ trOut.out.exc = "DegenerateBoundingBoxError")

\* The point of an epsg4326_to_pixel call lies strictly inside a box that
\* has width and height.
StrictlyInside ==
    /\ trArgs.bbox[1] < trArgs.lon /\ trArgs.lon < trArgs.bbox[3]
    /\ trArgs.bbox[2] < trArgs.lat /\ trArgs.lat < trArgs.bbox[4]

BackReturned == trBack.kind = "done" /\ trBack.out.ok

\* C13: for a box with width and height, a positive image size and a point
\* strictly inside the box, epsg4326_to_pixel followed by pixel_to_epsg4326
\* returns a longitude within (xmax - xmin) / width and a latitude within
\* (ymax - ymin) / height of the original.
C13_BoxRoundTripWithinOnePixel ==
    (TrKind = "epsg4326_to_pixel" /\ StrictlyInside /\ trBack.kind = "done")
        => /\ trBack.out.ok
           /\ Abs(trBack.out.val[1] - trArgs.lon) * trArgs.img_size[1]
                  <= trArgs.bbox[3] - trArgs.bbox[1]
           /\ Abs(trBack.out.val[2] - trArgs.lat) * trArgs.img_size[2]
                  <= trArgs.bbox[4] - trArgs.bbox[2]

\* C13 witness: a point strictly inside whose pixel position has a
\* fraction in both directions, so that the way back lands beside it.
C13_Witness ==
    /\ TrKind = "epsg4326_to_pixel"
    /\ StrictlyInside
    /\ BackReturned
    /\ trBack.out.val[1] # trArgs.lon
    /\ trBack.out.val[2] # trArgs.lat

\* C14: in tile mode get_coordinate_point returns the centre pixel
\* (width // 2, height // 2) of the image for every image size, whatever
\* the latitude, the longitude and the box it is given.
C14_TileReferenceIsCentre ==
    (TrKind = "get_coordinate_point" /\ trArgs.convert_coords /\ TrDone)
        => trOut.out = Ok(<< trArgs.img_size[1] \div 2, trArgs.img_size[2] \div 2 >>)

\* C14 witness: a tile-mode call on a non-square image of odd sides, given
\* no box and a point away from the middle of the model's box, returns.
C14_Witness ==
    /\ TrKind = "get_coordinate_point"
    /\ trArgs.convert_coords
    /\ TrReturned
    /\ trArgs.img_size = <<5, 3>>
    /\ trArgs.bbox = PyNone
    /\ trArgs.lat # MetaWMS.lat
    /\ trArgs.lon # MetaWMS.lon

\* C15: without convert_coords the reference pixel is epsg4326_to_pixel of
\* the reference point, and for a box built around the reference point as
\* the WMS extractor builds it (lon - d, lat - d, lon + d, lat + d, d > 0)
\* it is the image centre (width // 2, height // 2).
C15_SymmetricBoxReferenceIsCentre ==
    (TrKind = "get_bbox" /\ trBack.kind = "done")
        => /\ trBack.out = epsg4326_to_pixel(trArgs.lat, trArgs.lon,
                                             PyTuple(trOut.out.val), trArgs.img_size)
           /\ trBack.out = Ok(<< trArgs.img_size[1] \div 2, trArgs.img_size[2] \div 2 >>)

\* C16: for every point and every box with width and height, also for
\* points west of xmin or north of ymax, epsg4326_to_pixel returns the
\* floor of the continuous pixel position (x_frac * width, y_frac * height).
C16_PixelIsFloorOfPosition ==
    (TrKind = "epsg4326_to_pixel" /\ TrDone
        /\ trArgs.bbox[1] < trArgs.bbox[3] /\ trArgs.bbox[2] < trArgs.bbox[4])
        => /\ trOut.out.ok
           /\ trOut.out.val[1] =
                  ((trArgs.lon - trArgs.bbox[1]) * trArgs.img_size[1])
                      \div (trArgs.bbox[3] - trArgs.bbox[1])
           /\ trOut.out.val[2] =
                  ((trArgs.bbox[4] - trArgs.lat) * trArgs.img_size[2])
                      \div (trArgs.bbox[4] - trArgs.bbox[2])

OnTheGlobe(lat) == -(World \div 4) <= lat /\ lat <= World \div 4

\* C18: in epsg3857_to_pixel the sine of the latitude is confined to
\* [-0.9999, 0.9999] before the logarithm, so that for every latitude from
\* -90 to 90 degrees, the poles included, 1 + siny and 1 - siny are
\* positive and the call returns x and y.
C18_SineClampKeepsLogDefined ==
    (TrKind = "epsg3857_to_pixel" /\ TrDone /\ OnTheGlobe(trArgs.lat))
        => LET siny == ClampSiny(Sin(trArgs.lat))
           IN  /\ SinScale + siny > 0
               /\ SinScale - siny > 0
               /\ trOut.out.ok

\* C18 witness: the call at a pole returns, with the y of the clamp.
C18_Witness ==
    /\ TrKind = "epsg3857_to_pixel"
    /\ Abs(trArgs.lat) = World \div 4
    /\ TrReturned
    /\ trOut.out.val[2] = epsg3857_to_pixel(
                              IF trArgs.lat > 0 THEN LatClamp ELSE -LatClamp,
                              trArgs.lon, trArgs.zoom, trArgs.scale).val[2]

\* C20: no transform confines a longitude or a pixel: epsg3857_to_pixel's
\* x is (lon + 180) / 360 * map_size for every lon, also outside
\* [-180, 180]; pixel_to_epsg3857's lon is x / map_size * 360 - 180 for
\* every x; epsg4326_to_pixel and pixel_to_epsg4326 return the position
\* outside the image or the box as it is.
C20_NoLongitudeOrPixelClamp ==
    TrReturned =>
        /\ TrKind = "epsg3857_to_pixel" =>
               trOut.out.val[1] * World
                   = (trArgs.lon + HalfWorld) * 2 * MapSize(trArgs.zoom, trArgs.scale)
        /\ TrKind = "pixel_to_epsg3857" =>
               (trOut.out.val[2] + HalfWorld) * 2 * MapSize(trArgs.zoom, trArgs.scale)
                   = trArgs.x2 * World
        /\ TrKind = "epsg4326_to_pixel" =>
               /\ Abs(trOut.out.val[1] * (trArgs.bbox[3] - trArgs.bbox[1])
                          - (trArgs.lon - trArgs.bbox[1]) * trArgs.img_size[1])
                      < trArgs.bbox[3] - trArgs.bbox[1]
               /\ Abs(trOut.out.val[2] * (trArgs.bbox[4] - trArgs.bbox[2])
                          - (trArgs.bbox[4] - trArgs.lat) * trArgs.img_size[2])
                      < trArgs.bbox[4] - trArgs.bbox[2]
        /\ TrKind = "pixel_to_epsg4326" =>
               /\ (trOut.out.val[1] - trArgs.bbox[1]) * 2 * trArgs.img_width
                      = trArgs.x2 * (trArgs.bbox[3] - trArgs.bbox[1])
               /\ (trArgs.bbox[4] - trOut.out.val[2]) * 2 * trArgs.img_height
                      = trArgs.y2 * (trArgs.bbox[4] - trArgs.bbox[2])

\* C20 witness: a longitude east of 180 degrees gets an x beyond the map.
C20_Witness ==
    /\ TrKind = "epsg3857_to_pixel"
    /\ trArgs.lon > HalfWorld
    /\ TrReturned
    /\ trOut.out.val[1] > 2 * MapSize(trArgs.zoom, trArgs.scale)

(***************************************************************************)
(* Properties of concurrent calls (SpecThreads).                           *)
(***************************************************************************)

\* No thread is inside suppress_output: each has not entered it yet or has
\* left it, its devnull handle closed.
EveryThreadOutside ==
    \A t \in Threads : tpc[t] \in { "idle", "localize", "returned" }

\* C29: once every thread has left suppress_output, sys.stdout and
\* sys.stderr are the streams installed before the first entry, never a
\* devnull handle another thread left behind.
C29_StreamsRestoredAfterLastExit ==
    EveryThreadOutside => (sys_stdout = Console /\ sys_stderr = Console)

\* The result of the call when it runs alone: detection succeeds.
ResultAlone == AfterDetection("boxes", tcall)

\* C21: under every interleaving of concurrent calls, a call that has
\* finished returned what it returns when run alone, and the calls that
\* have finished left the state other calls see (the streams of the
\* process) as it was.
C21_ConcurrentCallsAreIndependent ==
    /\ \A t \in Threads : tpc[t] = "returned" => tout[t] = ResultAlone
    /\ (\A t \in Threads : tpc[t] = "returned")
           => (sys_stdout = Console /\ sys_stderr = Console)

(***************************************************************************)
(* Properties of SimilaritySearcher.search (SpecSearch).                   *)
(***************************************************************************)
SearchReturned == srOut.kind = "return"

\* The string has the keyword in it, letter case apart.
HasKeyword(chars, keyword) ==
    \E i \in 1 .. Len(chars) - Len(keyword) + 1 :
        \A j \in 1 .. Len(keyword) :
            LowerChar(chars[i + j - 1]) = LowerChar(keyword[j])

\* The documents the search may consider: text not null and, when keywords
\* are given, every keyword in the text.
Eligible(row, keyword_filters) ==
    /\ ~row.text.null
    /\ keyword_filters.t = "tuple"
           => \A k \in 1 .. Len(keyword_filters.v) :
                  HasKeyword(row.text.chars, keyword_filters.v[k])

\* C22: search considers only documents whose text is not null and holds
\* every keyword given, letter case apart: the result has no row of another
\* document, and when no document remains the empty frame is returned and
\* nothing is embedded.
C22_OnlyDocumentsWithEveryKeyword ==
    SearchReturned =>
        LET df == srArgs.document_df
            eligible == { df[i].id : i \in { n \in 1 .. Len(df) :
                                               Eligible(df[n], srArgs.keyword_filters) } }
        IN  /\ srOut.ids \subseteq eligible
            /\ srOut.embedded \subseteq eligible
            /\ (eligible = {}) => (srOut.ids = {} /\ ~srOut.query_embedded)

(***************************************************************************)
(* Properties of Crawler (SpecCrawler).                                    *)
(***************************************************************************)
Constructed == crawler.kind = "object"

\* The filters argument as a list: None stands for no filter.
FiltersGiven == IF crArgs.filters.t = "tuple" THEN crArgs.filters.v ELSE <<>>

\* C23: the filter chain of a constructed Crawler has exactly one filter
\* per entry of the filters list, in the order of the list: for a dict
\* entry a filter of the class its "type" names, for a filter instance that
\* instance.
C23_OneFilterPerEntry ==
    Constructed =>
        /\ Len(crawler.filter_chain) = Len(FiltersGiven)
        /\ \A i \in 1 .. Len(FiltersGiven) :
               IF FiltersGiven[i].t = "dict"
               THEN crawler.filter_chain[i].class = FiltersGiven[i].type
               ELSE crawler.filter_chain[i] = FiltersGiven[i]

\* The results deep_crawl is to report: the successful ones, in pdf mode
\* those of them whose content-type holds application/pdf.
Reported(n) ==
    /\ crArgs.results[n].success
    /\ crawler.crawl_type = "pdf" => crArgs.results[n].content_type = "application/pdf"

\* C24: deep_crawl returns a list of (url, markdown) tuples, one for each
\* successful result and none for an unsuccessful one, in html and in pdf
\* mode; in pdf mode only for the results whose content-type holds
\* application/pdf.
C24_OneTuplePerSuccessfulResult ==
    (crawl_data.kind = "return") =>
        LET reported == SelectSeq([n \in 1 .. Len(crArgs.results) |-> n],
                                  LAMBDA n : Reported(n))
        IN  /\ Len(crawl_data.crawl_data) = Len(reported)
            /\ \A i \in 1 .. Len(reported) :
                   crawl_data.crawl_data[i]
                       = [t |-> "tuple", url |-> reported[i], markdown |-> reported[i]]

====
